---- MODULE Spec2Model ----
(***************************************************************************)
(* A model of rss-rest-api.py: the RssFeed entity, the FeedStorage         *)
(* singleton (load, save, add_feed, get_feed, delete_feed,                  *)
(* add_entry_to_feed, _cleanup_old_entries, _parse_date) and the request    *)
(* threads that call it.                                                    *)
(*                                                                          *)
(* Several next-state relations share the state and the operators that     *)
(* model the code:                                                          *)
(*   SeqSpec   every store operation and every iteration of the retention   *)
(*             loop runs alone, from call to return (one caller at a time); *)
(*             StoreSpec, FairSpec, RoundTripSpec, FallbackSpec and         *)
(*             LoadedSpec are SeqSpec on chosen entries, disks and files;   *)
(*   QuerySpec the read-only routes (filter_feeds, the two documents);      *)
(*   CopySpec  a caller that keeps the result of filter_feeds while the     *)
(*             store changes;                                               *)
(*   Spec      request threads and the retention thread interleave at the   *)
(*             points where the interpreter may switch threads.             *)
(***************************************************************************)
EXTENDS Integers, Sequences, FiniteSets, TLC

VARIABLES
    feeds,      \* FeedStorage.feeds: feed_id -> RssFeed (a dict, insertion ordered)
    file,       \* the content of STORAGE_FILE
    now,        \* the wall clock, in days
    nextFeedId, \* uuid4 for feeds: how many feed ids have been handed out
    appends,    \* how many entries have been appended (bounds the model)
    swPc,       \* where the retention thread is
    swDelay,    \* the argument of the time.sleep the retention thread is in
    sw,         \* the locals of the retention thread
    pc,         \* where each request thread is
    loc,        \* the locals of each request thread
    sv,         \* the locals of save(), per thread that is in it
    hist,       \* history: per feed, every entry appended to it, newest first
    pruned,     \* history: the feeds whose list the retention sweep changed
    failures,   \* how many saves have failed (bounds the model)
    lastOp,     \* history: the last store operation that returned, and its result
    _instance,  \* FeedStorage._instance: the object it refers to, or None
    _lock,      \* FeedStorage._lock: the thread that holds it, or nobody
    objects,    \* how many FeedStorage objects super().__new__ has made
    loads,      \* how many times load() has been called
    started,    \* how many retention threads have been started
    returned,   \* history: per thread, the objects FeedStorage() returned to it
    calls       \* how many times FeedStorage() has been called (bounds the model)

\* the class attributes of FeedStorage and what its constructions did
singleton == <<_instance, _lock, objects, loads, started, returned, calls>>

vars == <<feeds, file, now, nextFeedId, appends, swPc, swDelay, sw, pc, loc, sv,
          hist, pruned, failures, lastOp, _instance, _lock, objects, loads,
          started, returned, calls>>

\* what only interleaved threads use
locals == <<sw, pc, loc, sv>>

----------------------------------------------------------------------------
(* Configuration and bounds *)

HISTORY_DAYS == 30

\* MAX_ENTRIES_PER_FEED is read from the environment; the model runs a small one.
MAX_ENTRIES_PER_FEED == 2

MaxFeeds == 2

MaxAppends == 3

NumThreads == 2

MaxSaveFailures == 1

\* how many times the model calls FeedStorage()
MaxCalls == 4

CLEANUP_SLEEP == 86400

RETRY_SLEEP == 3600

Threads == 1..NumThreads

FeedIds == 1..MaxFeeds

\* The clock starts late enough for an entry to be older than the cutoff.
StartDay == HISTORY_DAYS + 10

LastDay == StartDay + HISTORY_DAYS

----------------------------------------------------------------------------
(* Publication dates.  A date string is modelled by the format it is written
   in and the day it names. *)

Shapes == {"rfc822_gmt", "rfc822_plus0000", "iso_offset", "iso_z", "other"}

\* formats, in the order _parse_date tries them
Formats == <<"%a, %d %b %Y %H:%M:%S %Z",
             "%a, %d %b %Y %H:%M:%S GMT",
             "%a, %d %b %Y %H:%M:%S +0000",
             "%Y-%m-%dT%H:%M:%S%z",
             "%Y-%m-%dT%H:%M:%SZ">>

\* datetime.strptime(date_str, Formats[i]) does not raise ValueError
Matches(i, date_str) ==
    CASE i = 1 -> date_str.shape = "rfc822_gmt"
      [] i = 2 -> date_str.shape = "rfc822_gmt"
      [] i = 3 -> date_str.shape = "rfc822_plus0000"
      [] i = 4 -> date_str.shape \in {"iso_offset", "iso_z"}
      [] i = 5 -> date_str.shape = "iso_z"
      [] OTHER -> FALSE

\* strptime: only %z gives a datetime that carries a zone (an aware one)
Strptime(i, date_str) == [aware |-> (i = 4), day |-> date_str.day]

\* datetime.datetime.now(): a naive datetime
DatetimeNow(clock) == [aware |-> FALSE, day |-> clock]

\* a slip: the fallback is a fixed date instead of datetime.now()
_parse_date_Epoch(date_str, clock) ==
    LET hits == {i \in 1..Len(Formats) : Matches(i, date_str)}
    IN  IF hits = {}
        THEN DatetimeNow(0)
        ELSE Strptime(CHOOSE i \in hits : \A j \in hits : i <= j, date_str)

_parse_date(date_str, clock) ==
    LET hits == {i \in 1..Len(Formats) : Matches(i, date_str)}
    IN  IF hits = {}
        THEN DatetimeNow(clock)
        ELSE Strptime(CHOOSE i \in hits : \A j \in hits : i <= j, date_str)

\* a > b on datetimes: comparing a naive with an aware one raises TypeError
DatetimeGt(a, b) ==
    IF a.aware # b.aware THEN "TypeError"
    ELSE IF a.day > b.day THEN "True" ELSE "False"

----------------------------------------------------------------------------
(* Strings.  A title or a description is modelled by the sequence of its
   characters; a character by its name. *)

\* the characters of the model: two Latin letters in both cases, the Greek
\* sigma (capital, small, and the small one at the end of a word), and a lone
\* surrogate, which JSON from a request can hold ("\ud800") and UTF-8 cannot
Chars == {"a", "A", "b", "B", "SIGMA", "sigma", "final_sigma", "surrogate"}

\* the letters that are the same letter, case ignored
Letter(c) ==
    CASE c \in {"a", "A"} -> "a"
      [] c \in {"b", "B"} -> "b"
      [] c \in {"SIGMA", "sigma", "final_sigma"} -> "sigma"
      [] OTHER -> c

Cased(c) == c # "surrogate"

\* str.lower(): a capital sigma that ends a word (a cased letter before it,
\* none after it) becomes the final small sigma
Lower(str) ==
    [i \in 1..Len(str) |->
        CASE str[i] = "A" -> "a"
          [] str[i] = "B" -> "b"
          [] str[i] = "SIGMA" ->
                IF /\ i > 1 /\ Cased(str[i - 1])
                   /\ (i = Len(str) \/ ~Cased(str[i + 1]))
                THEN "final_sigma" ELSE "sigma"
          [] OTHER -> str[i]]

\* x in str
Contains(x, str) ==
    \E k \in 0..(Len(str) - Len(x)) : \A i \in 1..Len(x) : str[k + i] = x[i]

\* file.write on a file opened with encoding='utf-8' does not raise
\* UnicodeEncodeError
EncodableStr(str) == \A i \in 1..Len(str) : str[i] # "surrogate"

----------------------------------------------------------------------------
(* Entries and feeds *)

\* None, where a feed is expected
None == [none |-> TRUE]

\* None, where a string is expected (an optional field that is absent)
NoneStr == "<None>"

\* str(uuid.uuid4())
Uuid4 == "uuid4"

\* guid or ...: None and the empty string count as false
Falsy(v) == v = NoneStr \/ v = ""

\* FeedEntry.__init__
FeedEntry(title, link, description, pub_date, guid, image_url) ==
    [title |-> title, link |-> link, description |-> description,
     pub_date |-> pub_date,
     guid |-> IF Falsy(guid) THEN Uuid4 ELSE guid,
     image_url |-> image_url]

\* the entries requests carry: one per date, two of them under the same guid
Entries ==
    {FeedEntry(<<"a">>, "l1", <<"a">>,
               [shape |-> "rfc822_gmt", day |-> StartDay - HISTORY_DAYS], "g1", NoneStr),
     FeedEntry(<<"b">>, "l2", <<"b">>,
               [shape |-> "rfc822_gmt", day |-> StartDay], "g2", "u2"),
     FeedEntry(<<"a">>, "l3", <<"a">>,
               [shape |-> "iso_offset", day |-> 0], "g1", NoneStr),
     FeedEntry(<<"b">>, "l4", <<"b">>,
               [shape |-> "other", day |-> 0], "g3", NoneStr)}

\* RssFeed.__init__; feed_id or str(uuid.uuid4()) is the id given (a feed read
\* from the file) or the next one handed out (nextFeedId), and entries or []
\* is the list given or an empty one
RssFeed(title, link, description, language, feed_id, entries, image_url) ==
    [title |-> title, link |-> link, description |-> description,
     language |-> language,
     feed_id |-> feed_id,
     entries |-> entries,
     image_url |-> image_url]

\* the title the request that creates the feed_id-th feed gives it
FeedTitle(feed_id) == IF feed_id = 1 THEN <<"A">> ELSE <<"b">>

\* create_feed: RssFeed(title=data['title'], ...) and the entries added to it
NewFeed(feed_id, entries) ==
    [RssFeed(FeedTitle(feed_id), "link", <<"a">>, "en-US", feed_id, <<>>, NoneStr)
        EXCEPT !.entries = entries]

Min(a, b) == IF a < b THEN a ELSE b

Prefix(s, n) == SubSeq(s, 1, Min(n, Len(s)))

\* a slip: the entry is added with append()
InsertFront_AtEnd(entries, entry) == entries \o <<entry>>

\* self.entries.insert(0, entry)
InsertFront(entries, entry) == <<entry>> \o entries

\* a slip: the slice keeps the other end, self.entries[-MAX_ENTRIES_PER_FEED:]
Truncate_KeepsOldest(entries) ==
    IF Len(entries) > MAX_ENTRIES_PER_FEED
    THEN SubSeq(entries, Len(entries) - MAX_ENTRIES_PER_FEED + 1, Len(entries))
    ELSE entries

\* if len(self.entries) > MAX_ENTRIES_PER_FEED: self.entries = self.entries[:MAX...]
Truncate(entries) ==
    IF Len(entries) > MAX_ENTRIES_PER_FEED
    THEN SubSeq(entries, 1, MAX_ENTRIES_PER_FEED)
    ELSE entries

\* RssFeed.add_entry
add_entry(entries, entry) == Truncate(InsertFront(entries, entry))

RECURSIVE AddAll(_, _)
\* create_feed: for entry_data in data.get('entries', []): feed.add_entry(entry)
AddAll(entries, new) ==
    IF new = <<>> THEN entries
    ELSE AddAll(add_entry(entries, Head(new)), Tail(new))

\* self.feeds[feed.feed_id] = feed
PutFeed(fs, feed) ==
    [i \in DOMAIN fs \cup {feed.feed_id} |-> IF i = feed.feed_id THEN feed ELSE fs[i]]

\* a slip: the del is left out
RemoveFeed_Keeps(fs, feed_id) == fs

\* del self.feeds[feed_id]
RemoveFeed(fs, feed_id) == [i \in DOMAIN fs \ {feed_id} |-> fs[i]]

\* FeedStorage.get_feed: self.feeds.get(feed_id)
get_feed(fs, feed_id) == IF feed_id \in DOMAIN fs THEN fs[feed_id] ELSE None

----------------------------------------------------------------------------
(* Persistence *)

\* FeedEntry.to_dict
EntryToDict(e) ==
    [title |-> e.title, link |-> e.link, description |-> e.description,
     pubDate |-> e.pub_date, guid |-> e.guid, imageUrl |-> e.image_url]

\* FeedEntry.from_dict
EntryFromDict(d) ==
    FeedEntry(d.title, d.link, d.description, d.pubDate, d.guid, d.imageUrl)

\* RssFeed.to_dict
FeedToDict(f) ==
    [feedId |-> f.feed_id, title |-> f.title, link |-> f.link,
     description |-> f.description, language |-> f.language,
     imageUrl |-> f.image_url,
     entries |-> [i \in 1..Len(f.entries) |-> EntryToDict(f.entries[i])]]

\* RssFeed.from_dict: the feed is built without entries, then
\* feed.entries = [FeedEntry.from_dict(entry) for entry in data.get("entries", [])]
FeedFromDict(d) ==
    [RssFeed(d.title, d.link, d.description, d.language, d.feedId, <<>>, d.imageUrl)
        EXCEPT !.entries = [i \in 1..Len(d.entries) |-> EntryFromDict(d.entries[i])]]

\* the dict save() builds: {feed_id: feed.to_dict() for ...}
DumpData(fs) == [id \in DOMAIN fs |-> FeedToDict(fs[id])]

NoData == [id \in {} |-> None]

\* json.dump(data, file, ensure_ascii=False) on a UTF-8 file writes every
\* string as it is: it raises UnicodeEncodeError at a lone surrogate
CanDump(data) ==
    \A id \in DOMAIN data :
        /\ EncodableStr(data[id].title)
        /\ EncodableStr(data[id].description)
        /\ \A i \in 1..Len(data[id].entries) :
               /\ EncodableStr(data[id].entries[i].title)
               /\ EncodableStr(data[id].entries[i].description)

\* the storage file: missing, opened for writing and left empty or cut off
\* (not a JSON document), or written
FileAbsent == [state |-> "absent", data |-> NoData]

FileTruncated == [state |-> "truncated", data |-> NoData]

FileWritten(data) == [state |-> "written", data |-> data]

\* FeedStorage.load: the mapping a process starting on this file holds
load(f) ==
    IF f.state = "written"
    THEN [id \in DOMAIN f.data |-> FeedFromDict(f.data[id])]
    ELSE NoData

\* how a save can end: it completes, open() raises, or an exception is raised
\* after open(STORAGE_FILE, 'w') has emptied the file
SaveOutcomes == {"ok", "open_error", "write_error"}

\* FeedStorage.save, run alone: the file it leaves
save(fs, f, outcome) ==
    CASE outcome = "ok"          -> IF CanDump(DumpData(fs))
                                    THEN FileWritten(DumpData(fs))
                                    ELSE FileTruncated
      [] outcome = "open_error"  -> f
      [] outcome = "write_error" -> FileTruncated

----------------------------------------------------------------------------
(* The retention sweep *)

\* cutoff_date = now - datetime.timedelta(days=HISTORY_DAYS)
Cutoff(clock) == [aware |-> FALSE, day |-> clock - HISTORY_DAYS]

\* self._parse_date(entry.pub_date) > cutoff_date
Keeps(entry, clock) == DatetimeGt(_parse_date(entry.pub_date, clock), Cutoff(clock))

\* the list comprehension of the sweep over one feed's entries
FilterEntries(entries, clock) ==
    IF \E i \in 1..Len(entries) : Keeps(entries[i], clock) = "TypeError"
    THEN [error |-> TRUE, entries |-> entries]
    ELSE [error |-> FALSE,
          entries |-> SelectSeq(entries, LAMBDA e : Keeps(e, clock) = "True")]

\* a slip: the try encloses the while, so an exception ends the thread
SweepOnError_Ends == [pc |-> "ended", delay |-> 0]

\* except Exception: ... time.sleep(3600)
SweepOnError == [pc |-> "sleep", delay |-> RETRY_SLEEP]

\* time.sleep(86400)
SweepOnSuccess == [pc |-> "sleep", delay |-> CLEANUP_SLEEP]

\* for feed in self.feeds.values(): ...   in the dict's order (the order the
\* ids were handed out in), up to the first feed whose comprehension raises:
\* the feeds before it have their entries replaced, that one and the feeds
\* after it are left as they were
SweepFeeds(fs, clock) ==
    LET bad == {id \in DOMAIN fs : FilterEntries(fs[id].entries, clock).error}
        done == {id \in DOMAIN fs : \A b \in bad : id < b}
        out == [id \in DOMAIN fs |->
                   IF id \in done
                   THEN [fs[id] EXCEPT !.entries = FilterEntries(@, clock).entries]
                   ELSE fs[id]]
    IN  [feeds |-> out,
         modified |-> \E id \in done : Len(out[id].entries) < Len(fs[id].entries),
         error |-> bad # {},
         swept |-> done]

----------------------------------------------------------------------------
(* Initial state: FeedStorage() has run in a directory without a storage
   file; the retention thread is started and no request is being served. *)

NoEntry == FeedEntry(<<>>, "", <<>>, [shape |-> "other", day |-> 0], "none", NoneStr)

\* the retention thread, among the threads
Sweeper == 0

Procs == Threads \cup {Sweeper}

IdleLocals == [op |-> "none", fid |-> 0, entry |-> NoEntry, tmp |-> <<>>]

SweepLocals == [clock |-> 0, pos |-> 0, size |-> 0, fid |-> 0, tmp |-> <<>>,
                old_count |-> 0, feeds_modified |-> FALSE, raised |-> "none"]

\* save(): whether the file is open, the dict built so far, the place and the
\* size the iteration over self.feeds remembers
NotSaving == [open |-> FALSE, data |-> NoData, pos |-> 0, size |-> 0]

NoOp == [op |-> "none", fid |-> 0, entry |-> NoEntry, ret |-> FALSE]

Returned(op, fid, entry, ret) == [op |-> op, fid |-> fid, entry |-> entry, ret |-> ret]

\* _instance is None
NoInstance == 0

\* nobody holds _lock
Unlocked == -1

\* the module has run storage = FeedStorage() once, on the main thread
Constructed ==
    /\ _instance = 1
    /\ _lock = Unlocked
    /\ objects = 1
    /\ loads = 1
    /\ started = 1
    /\ returned = [t \in Threads |-> {}]
    /\ calls = 1

Init ==
    /\ Constructed
    /\ feeds = NoData
    /\ file = FileAbsent
    /\ now = StartDay
    /\ nextFeedId = 0
    /\ appends = 0
    /\ swPc = "run"
    /\ swDelay = 0
    /\ sw = SweepLocals
    /\ pc = [t \in Threads |-> "idle"]
    /\ loc = [t \in Threads |-> IdleLocals]
    /\ sv = [p \in Procs |-> NotSaving]
    /\ hist = NoData
    /\ pruned = {}
    /\ failures = 0
    /\ lastOp = NoOp

\* time passes
Tick ==
    /\ now < LastDay
    /\ now' = now + HISTORY_DAYS
    /\ lastOp' = NoOp
    /\ UNCHANGED <<feeds, file, nextFeedId, appends, swPc, swDelay, locals,
                   hist, pruned, failures>>
    /\ UNCHANGED singleton

\* lists a request may carry as the initial entries of a new feed
InitialEntries(E) == {<<>>} \cup {<<e>> : e \in E}

\* the environment lets a save fail only MaxSaveFailures times
MayEnd(outcome) == outcome = "ok" \/ failures < MaxSaveFailures

\* 1 if this save fails: the environment makes it fail or the data cannot be
\* written
Failed(fs, outcome) == IF outcome = "ok" /\ CanDump(DumpData(fs)) THEN 0 ELSE 1

\* A request thread that is between filter_feeds and its response holds, in
\* loc[t].tmp, its query and the feeds filter_feeds returned, each with the
\* stored feed whose list object its entries are (list_of, 0 if none).
Holds(l) == l.op = "search_feeds"

\* self.entries.insert(0, entry) on the list of the stored feed feed_id, as the
\* holders of that list see it; if the feed then assigns itself the slice, the
\* list is no longer the feed's
InsertSeen(l, feed_id, entry) ==
    IF ~Holds(l) THEN l
    ELSE [l EXCEPT !.tmp.held =
            [i \in 1..Len(@) |->
                IF @[i].list_of # feed_id THEN @[i]
                ELSE [feed_copy |-> [@[i].feed_copy EXCEPT
                                        !.entries = InsertFront(@, entry)],
                      list_of |-> IF Len(@[i].feed_copy.entries) + 1
                                        > MAX_ENTRIES_PER_FEED
                                  THEN 0 ELSE feed_id]]]

\* feed.entries = [...] on the stored feeds ids: their old lists are no longer
\* theirs
ListsReplaced(l, ids) ==
    IF ~Holds(l) THEN l
    ELSE [l EXCEPT !.tmp.held =
            [i \in 1..Len(@) |->
                IF @[i].list_of \in ids THEN [@[i] EXCEPT !.list_of = 0] ELSE @[i]]]

----------------------------------------------------------------------------
(* SeqSpec: operations run one at a time *)

\* create_feed -> FeedStorage.add_feed
SeqCreateFeed(initial, outcome) ==
    /\ nextFeedId < MaxFeeds
    /\ appends + Len(initial) <= MaxAppends
    /\ MayEnd(outcome)
    /\ LET id == nextFeedId + 1
           feed == NewFeed(id, AddAll(<<>>, initial))
           fs == PutFeed(feeds, feed)
       IN  /\ feeds' = fs
           /\ file' = save(fs, file, outcome)
           /\ hist' = [i \in DOMAIN fs |-> IF i = id THEN feed.entries ELSE hist[i]]
           /\ lastOp' = Returned("add_feed", id, NoEntry, TRUE)
           /\ failures' = failures + Failed(fs, outcome)
    /\ nextFeedId' = nextFeedId + 1
    /\ appends' = appends + Len(initial)
    /\ UNCHANGED <<now, swPc, swDelay, locals, pruned>>
    /\ UNCHANGED singleton

\* FeedStorage.delete_feed
SeqDeleteFeed(feed_id, outcome) ==
    /\ IF feed_id \in DOMAIN feeds
       THEN LET fs == RemoveFeed(feeds, feed_id)
            IN  /\ MayEnd(outcome)
                /\ feeds' = fs
                /\ file' = save(fs, file, outcome)
                /\ hist' = [i \in DOMAIN fs |-> hist[i]]
                /\ pruned' = pruned \ {feed_id}
                /\ failures' = failures + Failed(fs, outcome)
                /\ lastOp' = Returned("delete_feed", feed_id, NoEntry, TRUE)
       ELSE /\ outcome = "ok"
            /\ lastOp' = Returned("delete_feed", feed_id, NoEntry, FALSE)
            /\ UNCHANGED <<feeds, file, hist, pruned, failures>>
    /\ UNCHANGED <<now, nextFeedId, appends, swPc, swDelay, locals>>
    /\ UNCHANGED singleton

\* FeedStorage.add_entry_to_feed
SeqAppendEntry(feed_id, entry, outcome) ==
    /\ appends < MaxAppends
    /\ LET feed == get_feed(feeds, feed_id)
       IN  IF feed # None
           THEN LET fs == [feeds EXCEPT ![feed_id].entries = add_entry(@, entry)]
                IN  /\ MayEnd(outcome)
                    /\ feeds' = fs
                    /\ file' = save(fs, file, outcome)
                    /\ hist' = [hist EXCEPT ![feed_id] = <<entry>> \o @]
                    /\ appends' = appends + 1
                    /\ failures' = failures + Failed(fs, outcome)
                    /\ lastOp' = Returned("add_entry_to_feed", feed_id, entry, TRUE)
                    /\ loc' = [t \in Threads |-> InsertSeen(loc[t], feed_id, entry)]
           ELSE /\ outcome = "ok"
                /\ lastOp' = Returned("add_entry_to_feed", feed_id, entry, FALSE)
                /\ UNCHANGED <<feeds, file, hist, appends, failures, loc>>
    /\ UNCHANGED <<now, nextFeedId, swPc, swDelay, sw, pc, sv, pruned>>
    /\ UNCHANGED singleton

\* one iteration of the while True of _cleanup_old_entries, up to its sleep
SeqSweep(outcome) ==
    /\ swPc = "run"
    /\ LET r == SweepFeeds(feeds, now)
           next == IF r.error THEN SweepOnError ELSE SweepOnSuccess
       IN  /\ feeds' = r.feeds
           /\ pruned' = pruned \cup
                  {id \in DOMAIN feeds : Len(r.feeds[id].entries) < Len(feeds[id].entries)}
           /\ IF ~r.error /\ r.modified
              THEN /\ MayEnd(outcome)
                   /\ file' = save(r.feeds, file, outcome)
                   /\ failures' = failures + Failed(r.feeds, outcome)
              ELSE /\ outcome = "ok"
                   /\ UNCHANGED <<file, failures>>
           /\ swPc' = next.pc
           /\ swDelay' = next.delay
           /\ lastOp' = Returned("sweep", 0, NoEntry, ~r.error)
           /\ loc' = [t \in Threads |-> ListsReplaced(loc[t], r.swept)]
    /\ UNCHANGED <<now, nextFeedId, appends, sw, pc, sv, hist>>
    /\ UNCHANGED singleton

\* time.sleep returns
SweepWake ==
    /\ swPc = "sleep"
    /\ swPc' = "run"
    /\ swDelay' = 0
    /\ lastOp' = NoOp
    /\ UNCHANGED <<feeds, file, now, nextFeedId, appends, locals,
                   hist, pruned, failures>>
    /\ UNCHANGED singleton

\* the operations, over the entries E that requests carry and the ways O a
\* save can end
SeqNextOver(E, O) ==
    \/ \E initial \in InitialEntries(E), o \in O : SeqCreateFeed(initial, o)
    \/ \E id \in FeedIds, o \in O : SeqDeleteFeed(id, o)
    \/ \E id \in FeedIds, e \in E, o \in O : SeqAppendEntry(id, e, o)
    \/ \E o \in O : SeqSweep(o)
    \/ SweepWake
    \/ Tick

SeqNext == SeqNextOver(Entries, SaveOutcomes)

SeqSpec == Init /\ [][SeqNext]_vars

\* entries with dates in the RFC 822 format only
PlainEntries == {e \in Entries : e.pub_date.shape = "rfc822_gmt"}

\* ... on a disk that does not fail
StoreNext == SeqNextOver(PlainEntries, {"ok"})

StoreSpec == Init /\ [][StoreNext]_vars

\* The retention thread is a daemon thread of a running process: its sleep
\* returns and it is scheduled again.
\* entries with a date that is recent or carries a zone offset
SweepEntries == {e \in Entries : e.pub_date.shape = "iso_offset" \/ e.pub_date.day = StartDay}

\* feeds are created with such entries and deleted while the retention
\* thread runs
FairNext ==
    \/ \E initial \in InitialEntries(SweepEntries) : SeqCreateFeed(initial, "ok")
    \/ \E id \in FeedIds : SeqDeleteFeed(id, "ok")
    \/ SeqSweep("ok")
    \/ SweepWake
    \/ Tick

\* what the retention thread does next
SweepStep == SweepWake \/ SeqSweep("ok")

FairSpec == Init /\ [][FairNext]_vars /\ WF_vars(SweepStep)

----------------------------------------------------------------------------
(* Spec: the request threads (Flask serves each request in a thread of its
   own) and the retention thread run the same code with no lock around it.
   A step is what a thread does to the shared objects between two points
   where the interpreter may switch threads. *)

\* feeds the interleaved threads may create in all
ConcFeeds == 1

\* entries the interleaved threads may append in all: enough for two appends
\* to a feed that is full
ConcAppends == MAX_ENTRIES_PER_FEED + 2

\* an object that is no longer in self.feeds is still the caller's: what is
\* done to it does not show in the store
Stored(feed_id) == feed_id \in DOMAIN feeds

\* return from a store operation
Return(t, ret) ==
    /\ pc' = [pc EXCEPT ![t] = "idle"]
    /\ loc' = [loc EXCEPT ![t] = IdleLocals]
    /\ UNCHANGED lastOp
    /\ UNCHANGED singleton

\* create_feed: the feed is built from the request, then add_feed stores it:
\* self.feeds[feed.feed_id] = feed
AddFeed(t, initial) ==
    /\ pc[t] = "idle"
    /\ nextFeedId < ConcFeeds
    /\ appends + Len(initial) <= ConcAppends
    /\ LET feed == NewFeed(nextFeedId + 1, AddAll(<<>>, initial))
       IN  /\ feeds' = PutFeed(feeds, feed)
           /\ hist' = [i \in DOMAIN feeds \cup {feed.feed_id} |->
                          IF i = feed.feed_id THEN feed.entries ELSE hist[i]]
           /\ loc' = [loc EXCEPT ![t] = [IdleLocals EXCEPT !.op = "add_feed",
                                                          !.fid = feed.feed_id]]
    /\ nextFeedId' = nextFeedId + 1
    /\ appends' = appends + Len(initial)
    /\ pc' = [pc EXCEPT ![t] = "save"]
    /\ UNCHANGED <<file, now, swPc, swDelay, sw, sv, pruned, failures, lastOp>>
    /\ UNCHANGED singleton

\* delete_feed: if feed_id in self.feeds
DeleteCheck(t, feed_id) ==
    /\ pc[t] = "idle"
    /\ IF Stored(feed_id)
       THEN /\ pc' = [pc EXCEPT ![t] = "del"]
            /\ loc' = [loc EXCEPT ![t] = [IdleLocals EXCEPT !.op = "delete_feed",
                                                           !.fid = feed_id]]
       ELSE UNCHANGED <<pc, loc>>
    /\ UNCHANGED <<feeds, file, now, nextFeedId, appends, swPc, swDelay, sw, sv,
                   hist, pruned, failures, lastOp>>
    /\ UNCHANGED singleton

\* delete_feed: del self.feeds[feed_id]; KeyError when another thread has
\* deleted the feed since the test
DeleteDel(t) ==
    /\ pc[t] = "del"
    /\ IF Stored(loc[t].fid)
       THEN /\ feeds' = RemoveFeed(feeds, loc[t].fid)
            /\ hist' = [i \in DOMAIN feeds \ {loc[t].fid} |-> hist[i]]
            /\ pruned' = pruned \ {loc[t].fid}
            /\ pc' = [pc EXCEPT ![t] = "save"]
            /\ UNCHANGED loc
       ELSE /\ pc' = [pc EXCEPT ![t] = "idle"]
            /\ loc' = [loc EXCEPT ![t] = IdleLocals]
            /\ UNCHANGED <<feeds, hist, pruned>>
    /\ UNCHANGED <<file, now, nextFeedId, appends, swPc, swDelay, sw, sv, failures,
                   lastOp>>
    /\ UNCHANGED singleton

\* add_entry_to_feed: feed = self.get_feed(feed_id); if feed: ...
AppendGet(t, feed_id, entry) ==
    /\ pc[t] = "idle"
    /\ appends < ConcAppends
    /\ IF get_feed(feeds, feed_id) # None
       THEN /\ pc' = [pc EXCEPT ![t] = "insert"]
            /\ loc' = [loc EXCEPT ![t] = [IdleLocals EXCEPT !.op = "add_entry_to_feed",
                                                           !.fid = feed_id,
                                                           !.entry = entry]]
            /\ appends' = appends + 1
       ELSE UNCHANGED <<pc, loc, appends>>
    /\ UNCHANGED <<feeds, file, now, nextFeedId, swPc, swDelay, sw, sv,
                   hist, pruned, failures, lastOp>>
    /\ UNCHANGED singleton

\* add_entry: self.entries.insert(0, entry)
AppendInsert(t) ==
    /\ pc[t] = "insert"
    /\ IF Stored(loc[t].fid)
       THEN /\ feeds' = [feeds EXCEPT ![loc[t].fid].entries = InsertFront(@, loc[t].entry)]
            /\ hist' = [hist EXCEPT ![loc[t].fid] = <<loc[t].entry>> \o @]
       ELSE UNCHANGED <<feeds, hist>>
    /\ pc' = [pc EXCEPT ![t] = "check"]
    /\ UNCHANGED <<file, now, nextFeedId, appends, swPc, swDelay, sw, loc, sv,
                   pruned, failures, lastOp>>
    /\ UNCHANGED singleton

\* add_entry: if len(self.entries) > MAX_ENTRIES_PER_FEED, and the slice
\* self.entries[:MAX_ENTRIES_PER_FEED], not yet assigned
AppendSlice(t) ==
    /\ pc[t] = "check"
    /\ IF Stored(loc[t].fid) /\ Len(feeds[loc[t].fid].entries) > MAX_ENTRIES_PER_FEED
       THEN /\ loc' = [loc EXCEPT ![t].tmp = Truncate(feeds[loc[t].fid].entries)]
            /\ pc' = [pc EXCEPT ![t] = "assign"]
       ELSE /\ pc' = [pc EXCEPT ![t] = "save"]
            /\ UNCHANGED loc
    /\ UNCHANGED <<feeds, file, now, nextFeedId, appends, swPc, swDelay, sw, sv,
                   hist, pruned, failures, lastOp>>
    /\ UNCHANGED singleton

\* add_entry: self.entries = <the slice>
AppendAssign(t) ==
    /\ pc[t] = "assign"
    /\ IF Stored(loc[t].fid)
       THEN feeds' = [feeds EXCEPT ![loc[t].fid].entries = loc[t].tmp]
       ELSE UNCHANGED feeds
    /\ loc' = [loc EXCEPT ![t].tmp = <<>>]
    /\ pc' = [pc EXCEPT ![t] = "save"]
    /\ UNCHANGED <<file, now, nextFeedId, appends, swPc, swDelay, sw, sv,
                   hist, pruned, failures, lastOp>>
    /\ UNCHANGED singleton

\* thread p is at a call of save()
AtSave(p) == IF p = Sweeper THEN swPc = "save" ELSE pc[p] = "save"

\* save() returns to its caller, which returns (a store operation) or sleeps
\* (the retention thread)
AfterSave(p) ==
    IF p = Sweeper
    THEN /\ swPc' = SweepOnSuccess.pc
         /\ swDelay' = SweepOnSuccess.delay
         /\ UNCHANGED <<pc, loc, lastOp>>
    ELSE /\ Return(p, TRUE)
         /\ UNCHANGED <<swPc, swDelay>>

\* save: open(STORAGE_FILE, 'w') empties the file; the comprehension starts
\* to iterate over self.feeds.items()
SaveOpen(p) ==
    /\ AtSave(p)
    /\ ~sv[p].open
    /\ file' = FileTruncated
    /\ sv' = [sv EXCEPT ![p] = [open |-> TRUE, data |-> NoData, pos |-> 0,
                                size |-> Cardinality(DOMAIN feeds)]]
    /\ UNCHANGED <<feeds, now, nextFeedId, appends, swPc, swDelay, sw, pc, loc,
                   hist, pruned, failures, lastOp>>
    /\ UNCHANGED singleton

\* the feeds a dict iteration that has reached pos has yet to yield
Ahead(pos) == {id \in DOMAIN feeds : id > pos}

\* save: the comprehension takes the next item and calls feed.to_dict();
\* "dictionary changed size during iteration" (a RuntimeError, caught and
\* printed by save) when the dict has another size than when it started
SaveItem(p) ==
    /\ AtSave(p)
    /\ sv[p].open
    /\ Cardinality(DOMAIN feeds) # sv[p].size \/ Ahead(sv[p].pos) # {}
    /\ IF Cardinality(DOMAIN feeds) # sv[p].size
       THEN /\ sv' = [sv EXCEPT ![p] = NotSaving]
            /\ failures' = Min(failures + 1, MaxSaveFailures)
            /\ AfterSave(p)
       ELSE LET id == CHOOSE i \in Ahead(sv[p].pos) : \A j \in Ahead(sv[p].pos) : i <= j
            IN  /\ sv' = [sv EXCEPT ![p].pos = id,
                                    ![p].data = [i \in DOMAIN @ \cup {id} |->
                                        IF i = id THEN FeedToDict(feeds[id]) ELSE @[i]]]
                /\ UNCHANGED <<failures, swPc, swDelay, pc, loc, lastOp>>
    /\ UNCHANGED <<feeds, file, now, nextFeedId, appends, sw, hist, pruned>>
    /\ UNCHANGED singleton

\* save: json.dump(data, file), the file is closed
SaveDump(p) ==
    /\ AtSave(p)
    /\ sv[p].open
    /\ Cardinality(DOMAIN feeds) = sv[p].size
    /\ Ahead(sv[p].pos) = {}
    /\ IF CanDump(sv[p].data)
       THEN file' = FileWritten(sv[p].data) /\ UNCHANGED failures
       ELSE file' = file /\ failures' = Min(failures + 1, MaxSaveFailures)
    /\ sv' = [sv EXCEPT ![p] = NotSaving]
    /\ AfterSave(p)
    /\ UNCHANGED <<feeds, now, nextFeedId, appends, sw, hist, pruned>>
    /\ UNCHANGED singleton

\* _cleanup_old_entries: now, cutoff_date, feeds_modified = False, and the
\* for loop starts to iterate over self.feeds.values()
SweepStart ==
    /\ swPc = "run"
    /\ sw' = [SweepLocals EXCEPT !.clock = now, !.size = Cardinality(DOMAIN feeds)]
    /\ swPc' = "iter"
    /\ UNCHANGED <<feeds, file, now, nextFeedId, appends, swDelay, pc, loc, sv,
                   hist, pruned, failures, lastOp>>
    /\ UNCHANGED singleton

\* the retention thread leaves the try block by an exception
SweepRaise(error) ==
    [sw |-> [sw EXCEPT !.raised = error],
     pc |-> SweepOnError.pc, delay |-> SweepOnError.delay]

\* the for loop takes the next feed: old_count and the list comprehension
\* over feed.entries, not yet assigned; or the loop is over
SweepItem ==
    /\ swPc = "iter"
    /\ LET id == CHOOSE i \in Ahead(sw.pos) : \A j \in Ahead(sw.pos) : i <= j
           r == FilterEntries(feeds[id].entries, sw.clock)
           to == IF Cardinality(DOMAIN feeds) # sw.size
                 THEN SweepRaise("RuntimeError")
                 ELSE IF Ahead(sw.pos) = {}
                 THEN IF sw.feeds_modified
                      THEN [sw |-> sw, pc |-> "save", delay |-> swDelay]
                      ELSE [sw |-> sw, pc |-> SweepOnSuccess.pc,
                            delay |-> SweepOnSuccess.delay]
                 ELSE IF r.error
                 THEN SweepRaise("TypeError")
                 ELSE [sw |-> [sw EXCEPT !.pos = id, !.fid = id, !.tmp = r.entries,
                                         !.old_count = Len(feeds[id].entries)],
                       pc |-> "assign", delay |-> swDelay]
       IN  /\ sw' = to.sw
           /\ swPc' = to.pc
           /\ swDelay' = to.delay
    /\ UNCHANGED <<feeds, file, now, nextFeedId, appends, pc, loc, sv,
                   hist, pruned, failures, lastOp>>
    /\ UNCHANGED singleton

\* feed.entries = <the comprehension's list>;
\* if len(feed.entries) < old_count: feeds_modified = True
SweepAssign ==
    /\ swPc = "assign"
    /\ IF Stored(sw.fid)
       THEN /\ feeds' = [feeds EXCEPT ![sw.fid].entries = sw.tmp]
            /\ pruned' = IF sw.tmp # feeds[sw.fid].entries
                         THEN pruned \cup {sw.fid} ELSE pruned
       ELSE UNCHANGED <<feeds, pruned>>
    /\ sw' = [sw EXCEPT !.tmp = <<>>, !.fid = 0, !.old_count = 0,
                        !.feeds_modified = @ \/ Len(sw.tmp) < sw.old_count]
    /\ swPc' = "iter"
    /\ UNCHANGED <<file, now, nextFeedId, appends, swDelay, pc, loc, sv,
                   hist, failures, lastOp>>
    /\ UNCHANGED singleton

\* time.sleep returns
SweepResume ==
    /\ swPc = "sleep"
    /\ swPc' = "run"
    /\ swDelay' = 0
    /\ sw' = SweepLocals
    /\ UNCHANGED <<feeds, file, now, nextFeedId, appends, pc, loc, sv,
                   hist, pruned, failures, lastOp>>
    /\ UNCHANGED singleton

Next ==
    \/ \E t \in Threads, initial \in InitialEntries(PlainEntries) : AddFeed(t, initial)
    \/ \E t \in Threads, id \in 1..ConcFeeds : DeleteCheck(t, id)
    \/ \E t \in Threads : DeleteDel(t)
    \/ \E t \in Threads, id \in 1..ConcFeeds, e \in PlainEntries : AppendGet(t, id, e)
    \/ \E t \in Threads : AppendInsert(t)
    \/ \E t \in Threads : AppendSlice(t)
    \/ \E t \in Threads : AppendAssign(t)
    \/ \E p \in Procs : SaveOpen(p)
    \/ \E p \in Procs : SaveItem(p)
    \/ \E p \in Procs : SaveDump(p)
    \/ SweepStart
    \/ SweepItem
    \/ SweepAssign
    \/ SweepResume

Spec == Init /\ [][Next]_vars

----------------------------------------------------------------------------
(* RoundTripSpec: the store operations, one at a time, on entries of which
   one has a title that UTF-8 cannot encode *)

\* POST with "title": "\ud800"
SurrogateEntry ==
    FeedEntry(<<"surrogate">>, "l5", <<"a">>,
              [shape |-> "rfc822_gmt", day |-> StartDay], "g5", NoneStr)

RoundTripEntries == PlainEntries \cup {SurrogateEntry}

RoundTripNext == SeqNextOver(RoundTripEntries, {"ok"})

RoundTripSpec == Init /\ [][RoundTripNext]_vars

----------------------------------------------------------------------------
(* Queries: FeedStorage.filter_feeds and the documents built from feeds *)

\* a >= b and a <= b on datetimes
DatetimeGe(a, b) ==
    IF a.aware # b.aware THEN "TypeError"
    ELSE IF a.day >= b.day THEN "True" ELSE "False"

DatetimeLe(a, b) ==
    IF a.aware # b.aware THEN "TypeError"
    ELSE IF a.day <= b.day THEN "True" ELSE "False"

\* datetime.datetime.fromisoformat(text): ValueError, or a datetime that is
\* aware if the text carries an offset.  The text is modelled by the outcome.
IsoDate(aware, day) == [valid |-> TRUE, aware |-> aware, day |-> day]

NotIsoDate == [valid |-> FALSE, aware |-> FALSE, day |-> 0]

\* int(text): ValueError, or an integer
IntText(n) == [valid |-> TRUE, n |-> n]

NotIntText == [valid |-> FALSE, n |-> 0]

\* query_params: the keys a request gives, with their values
NoParams == [k \in {} |-> NoneStr]

Max(a, b) == IF a > b THEN a ELSE b

\* entries[:n]
Slice(entries, n) ==
    IF n >= 0 THEN SubSeq(entries, 1, Min(n, Len(entries)))
    ELSE SubSeq(entries, 1, Max(Len(entries) + n, 0))

\* if 'title' in query_params: [e for e in ... if title_query in e.title.lower()]
ByTitle(entries, q) ==
    IF "title" \in DOMAIN q
    THEN SelectSeq(entries, LAMBDA e : Contains(Lower(q.title), Lower(e.title)))
    ELSE entries

\* if 'description' in query_params: ...
ByDescription(entries, q) ==
    IF "description" \in DOMAIN q
    THEN SelectSeq(entries,
                   LAMBDA e : Contains(Lower(q.description), Lower(e.description)))
    ELSE entries

\* the from_date criterion is applied: the key is given and fromisoformat does
\* not raise ValueError
FromApplies(q) == "from_date" \in DOMAIN q /\ q.from_date.valid

ToApplies(q) == "to_date" \in DOMAIN q /\ q.to_date.valid

\* self._parse_date(e.pub_date) >= from_date, for the entries that are left
ByFrom(entries, q, clock) ==
    IF ~FromApplies(q) THEN [raised |-> "none", entries |-> entries]
    ELSE IF \E i \in 1..Len(entries) :
                DatetimeGe(_parse_date(entries[i].pub_date, clock), q.from_date)
                    = "TypeError"
    THEN [raised |-> "TypeError", entries |-> <<>>]
    ELSE [raised |-> "none",
          entries |-> SelectSeq(entries, LAMBDA e :
              DatetimeGe(_parse_date(e.pub_date, clock), q.from_date) = "True")]

\* self._parse_date(e.pub_date) <= to_date
ByTo(entries, q, clock) ==
    IF ~ToApplies(q) THEN [raised |-> "none", entries |-> entries]
    ELSE IF \E i \in 1..Len(entries) :
                DatetimeLe(_parse_date(entries[i].pub_date, clock), q.to_date)
                    = "TypeError"
    THEN [raised |-> "TypeError", entries |-> <<>>]
    ELSE [raised |-> "none",
          entries |-> SelectSeq(entries, LAMBDA e :
              DatetimeLe(_parse_date(e.pub_date, clock), q.to_date) = "True")]

LimitApplies(q) == "limit" \in DOMAIN q /\ q.limit.valid

\* filtered_entries = filtered_entries[:limit]
ByLimit(entries, q) ==
    IF LimitApplies(q) THEN Slice(entries, q.limit.n) ELSE entries

\* no criterion has built a new list: filtered_entries still is feed.entries,
\* the list object of the stored feed
SameList(q) ==
    /\ "title" \notin DOMAIN q
    /\ "description" \notin DOMAIN q
    /\ ~FromApplies(q)
    /\ ~ToApplies(q)
    /\ ~LimitApplies(q)

\* the body of the loop of filter_feeds for one feed: feed_copy, or the
\* exception raised.  list_of is the stored feed whose list object
\* feed_copy.entries is, 0 if it is a list of its own.
FilterFeed(feed, q, clock) ==
    LET a == ByDescription(ByTitle(feed.entries, q), q)
        b == ByFrom(a, q, clock)
        c == ByTo(b.entries, q, clock)
        raised == IF b.raised # "none" THEN b.raised ELSE c.raised
        entries == ByLimit(c.entries, q)
        feed_copy == [RssFeed(feed.title, feed.link, feed.description,
                              feed.language, feed.feed_id, <<>>, feed.image_url)
                         EXCEPT !.entries = entries]
    IN  [raised |-> raised,
         feed_copy |-> feed_copy,
         list_of |-> IF SameList(q) THEN feed.feed_id ELSE 0]

\* query_params.get('include_empty', 'false').lower() == 'true'
IncludeEmpty(q) == "include_empty" \in DOMAIN q /\ q.include_empty = "true"

\* the ids of a mapping in the order of the dict (the order they were handed
\* out in)
IdsInOrder(fs) ==
    SelectSeq([i \in 1..MaxFeeds + 1 |-> i], LAMBDA i : i \in DOMAIN fs)

\* FeedStorage.filter_feeds: the list it returns, or the exception it raises
filter_feeds(fs, q, clock) ==
    LET ids == IdsInOrder(fs)
        bad == {id \in DOMAIN fs : FilterFeed(fs[id], q, clock).raised # "none"}
        kept == SelectSeq(ids, LAMBDA id :
                    \/ FilterFeed(fs[id], q, clock).feed_copy.entries # <<>>
                    \/ IncludeEmpty(q))
    IN  IF bad # {}
        THEN [raised |-> "TypeError", feeds |-> <<>>, lists |-> <<>>]
        ELSE [raised |-> "none",
              feeds |-> [i \in 1..Len(kept) |-> FilterFeed(fs[kept[i]], q, clock).feed_copy],
              lists |-> [i \in 1..Len(kept) |-> FilterFeed(fs[kept[i]], q, clock).list_of]]

\* title=f"[{feed.title}] {entry.title}"
Bracketed(feed_title, entry_title) ==
    <<"[">> \o feed_title \o <<"]", " ">> \o entry_title

\* entry_copy = FeedEntry(title=f"[{feed.title}] {entry.title}", ...)
EntryCopy(feed, entry) ==
    FeedEntry(Bracketed(feed.title, entry.title), entry.link, entry.description,
              entry.pub_date, entry.guid, entry.image_url)

RECURSIVE Flatten(_)
\* the entries of a list of feeds, feed after feed, each copied
Flatten(fseq) ==
    IF fseq = <<>> THEN <<>>
    ELSE [i \in 1..Len(Head(fseq).entries) |-> EntryCopy(Head(fseq), Head(fseq).entries[i])]
         \o Flatten(Tail(fseq))

\* for feed in ...: for entry in feed.entries: combined_feed.add_entry(entry_copy)
Combine(fseq) == AddAll(<<>>, Flatten(fseq))

\* the key of the sort: _parse_date(e.pub_date).  The keys are computed in the
\* order of the list, and each datetime.now() of the fallback is later than
\* the one before: call is the position of the entry in the list.
SortKey(entry, call, clock) ==
    LET d == _parse_date(entry.pub_date, clock)
    IN  [aware |-> d.aware, day |-> d.day,
         call |-> IF \E i \in 1..Len(Formats) : Matches(i, entry.pub_date)
                  THEN 0 ELSE call]

\* key a is before key b in the order of datetimes
KeyLt(a, b) == a.day < b.day \/ (a.day = b.day /\ a.call < b.call)

\* entries.sort(key=..., reverse=True): descending, equal keys in the order
\* they have in the list; TypeError if an aware key is compared with a naive one
SortByDate(entries, clock) ==
    LET n == Len(entries)
        key == [i \in 1..n |-> SortKey(entries[i], i, clock)]
        \* the place of the i-th entry in the sorted list
        place == [i \in 1..n |->
                    1 + Cardinality({j \in 1..n :
                            \/ KeyLt(key[i], key[j])
                            \/ (~KeyLt(key[j], key[i]) /\ j < i)})]
    IN  IF \E i, j \in 1..n : key[i].aware # key[j].aware
        THEN [raised |-> "TypeError", entries |-> <<>>]
        ELSE [raised |-> "none",
              entries |-> [k \in 1..n |-> entries[CHOOSE i \in 1..n : place[i] = k]]]

\* get_all_feeds_xml: the items of the document, or the exception
AllFeedsDocument(fs, clock) ==
    LET ids == IdsInOrder(fs)
    IN  SortByDate(Combine([i \in 1..Len(ids) |-> fs[ids[i]]]), clock)

\* search_feeds: what the request gets, for a call of filter_feeds that
\* returned r
SearchDocument(q, r) ==
    [query |-> q, raised |-> r.raised, feeds |-> r.feeds,
     items |-> IF "format" \in DOMAIN q /\ q.format = "xml"
               THEN Combine(r.feeds) ELSE <<>>]

----------------------------------------------------------------------------
(* QuerySpec: feeds are created, appended to and deleted, and searched and
   rendered in between; every request runs alone *)

\* GET /feeds/search: filter_feeds, then the document
SeqSearch(q) ==
    /\ lastOp' = Returned("search_feeds", 0, NoEntry,
                          SearchDocument(q, filter_feeds(feeds, q, now)))
    /\ UNCHANGED <<feeds, file, now, nextFeedId, appends, swPc, swDelay, locals,
                   hist, pruned, failures>>
    /\ UNCHANGED singleton

\* GET /feeds/xml
SeqAllFeeds ==
    /\ lastOp' = Returned("get_all_feeds_xml", 0, NoEntry,
                          AllFeedsDocument(feeds, now))
    /\ UNCHANGED <<feeds, file, now, nextFeedId, appends, swPc, swDelay, locals,
                   hist, pruned, failures>>
    /\ UNCHANGED singleton

\* the entries the requests of QuerySpec carry: two of the same date, an older
\* one, and one whose date carries an offset
QueryEntries ==
    {FeedEntry(<<"a", "SIGMA">>, "l1", <<"b">>,
               [shape |-> "rfc822_gmt", day |-> StartDay], "q1", NoneStr),
     FeedEntry(<<"A">>, "l2", <<"a", "SIGMA">>,
               [shape |-> "rfc822_gmt", day |-> StartDay], "q2", NoneStr),
     FeedEntry(<<"b">>, "l3", <<"B">>,
               [shape |-> "rfc822_gmt", day |-> StartDay - HISTORY_DAYS], "q3", "u3"),
     FeedEntry(<<"a">>, "l4", <<"a">>,
               [shape |-> "iso_offset", day |-> StartDay], "q4", NoneStr)}

\* the query strings of the requests
Queries ==
    {NoParams,
     "title" :> <<"a">>,
     "title" :> <<"A">>,
     "title" :> <<"SIGMA">>,
     "description" :> <<"b">>,
     "description" :> <<"sigma">>,
     "from_date" :> IsoDate(FALSE, StartDay),
     "from_date" :> IsoDate(TRUE, StartDay),
     "from_date" :> NotIsoDate,
     "to_date" :> IsoDate(FALSE, StartDay - HISTORY_DAYS),
     "to_date" :> NotIsoDate,
     "limit" :> IntText(1),
     "limit" :> IntText(0),
     "limit" :> IntText(0 - 1),
     "limit" :> NotIntText,
     ("title" :> <<"a">>) @@ ("limit" :> IntText(1)),
     "include_empty" :> "true",
     "format" :> "xml",
     ("format" :> "xml") @@ ("limit" :> IntText(1))}

QueryNext ==
    \/ \E initial \in InitialEntries(QueryEntries) : SeqCreateFeed(initial, "ok")
    \/ \E id \in FeedIds : SeqDeleteFeed(id, "ok")
    \/ \E id \in FeedIds, e \in QueryEntries : SeqAppendEntry(id, e, "ok")
    \/ \E q \in Queries : SeqSearch(q)
    \/ SeqAllFeeds

QuerySpec == Init /\ [][QueryNext]_vars

----------------------------------------------------------------------------
(* CopySpec: a request thread has called filter_feeds and has not yet built
   its response while other requests and the retention sweep run, each of
   them alone *)

\* search_feeds: filtered_feeds = storage.filter_feeds(query_params); an
\* exception ends the request
CallFilter(t, q) ==
    /\ pc[t] = "idle"
    /\ LET r == filter_feeds(feeds, q, now)
       IN  IF r.raised # "none"
           THEN /\ lastOp' = Returned("search_feeds", 0, NoEntry, SearchDocument(q, r))
                /\ UNCHANGED <<pc, loc>>
           ELSE /\ lastOp' = Returned("filter_feeds", 0, NoEntry, r.feeds)
                /\ pc' = [pc EXCEPT ![t] = "render"]
                /\ loc' = [loc EXCEPT ![t] =
                      [IdleLocals EXCEPT
                          !.op = "search_feeds",
                          !.tmp = [query |-> q,
                                   held |-> [i \in 1..Len(r.feeds) |->
                                                [feed_copy |-> r.feeds[i],
                                                 list_of |-> r.lists[i]]]]]]
    /\ UNCHANGED <<feeds, file, now, nextFeedId, appends, swPc, swDelay, sw, sv,
                   hist, pruned, failures>>
    /\ UNCHANGED singleton

\* search_feeds: the response is built from filtered_feeds as they are now
Render(t) ==
    /\ pc[t] = "render"
    /\ LET held == loc[t].tmp.held
           r == [raised |-> "none",
                 feeds |-> [i \in 1..Len(held) |-> held[i].feed_copy]]
       IN  lastOp' = Returned("search_feeds", 0, NoEntry,
                              SearchDocument(loc[t].tmp.query, r))
    /\ pc' = [pc EXCEPT ![t] = "idle"]
    /\ loc' = [loc EXCEPT ![t] = IdleLocals]
    /\ UNCHANGED <<feeds, file, now, nextFeedId, appends, swPc, swDelay, sw, sv,
                   hist, pruned, failures>>
    /\ UNCHANGED singleton

\* the request thread that serves the searches
Searcher == 1

\* searches without a criterion, with one that is ignored, and with a limit
CopyQueries == {NoParams, "from_date" :> NotIsoDate, "limit" :> IntText(1)}

CopyNext ==
    \/ \E initial \in InitialEntries(PlainEntries) : SeqCreateFeed(initial, "ok")
    \/ \E id \in FeedIds : SeqDeleteFeed(id, "ok")
    \/ \E id \in FeedIds, e \in PlainEntries : SeqAppendEntry(id, e, "ok")
    \/ SeqSweep("ok")
    \/ SweepWake
    \/ \E q \in CopyQueries : CallFilter(Searcher, q)
    \/ Render(Searcher)

CopySpec == Init /\ [][CopyNext]_vars

----------------------------------------------------------------------------
(* LoadedSpec: FeedStorage() has run on a storage file that holds a feed with
   more than MAX_ENTRIES_PER_FEED entries (written under a larger limit, or by
   hand); then the store operations, one at a time *)

\* the lists of n entries
Lists(E, n) == [1..n -> E]

\* the feeds such a file holds
LoadedStores ==
    {[id \in {1} |-> NewFeed(1, entries)] :
        entries \in Lists(PlainEntries, MAX_ENTRIES_PER_FEED + 1)}

LoadedInit ==
    /\ Constructed
    /\ file \in {FileWritten(DumpData(fs)) : fs \in LoadedStores}
    /\ feeds = load(file)
    /\ now = StartDay
    /\ nextFeedId = 1
    /\ appends = 0
    /\ swPc = "run"
    /\ swDelay = 0
    /\ sw = SweepLocals
    /\ pc = [t \in Threads |-> "idle"]
    /\ loc = [t \in Threads |-> IdleLocals]
    /\ sv = [p \in Procs |-> NotSaving]
    /\ hist = [id \in DOMAIN feeds |-> feeds[id].entries]
    /\ pruned = {}
    /\ failures = 0
    /\ lastOp = NoOp

LoadedSpec == LoadedInit /\ [][StoreNext]_vars

----------------------------------------------------------------------------
(* NewSpec: the process starts with no store; threads call FeedStorage() and
   run FeedStorage.__new__ statement by statement *)

\* the storage files the process may find
StorageFiles ==
    {FileAbsent, FileTruncated} \cup {FileWritten(DumpData(fs)) : fs \in LoadedStores}

NewInit ==
    /\ file \in StorageFiles
    /\ feeds = NoData
    /\ now = StartDay
    /\ nextFeedId = 0
    /\ appends = 0
    /\ swPc = "unstarted"
    /\ swDelay = 0
    /\ sw = SweepLocals
    /\ pc = [t \in Threads |-> "idle"]
    /\ loc = [t \in Threads |-> IdleLocals]
    /\ sv = [p \in Procs |-> NotSaving]
    /\ hist = NoData
    /\ pruned = {}
    /\ failures = 0
    /\ lastOp = NoOp
    /\ _instance = NoInstance
    /\ _lock = Unlocked
    /\ objects = 0
    /\ loads = 0
    /\ started = 0
    /\ returned = [t \in Threads |-> {}]
    /\ calls = 0

\* what the steps of __new__ leave alone
NewKeeps == <<file, now, nextFeedId, appends, swDelay, sw, loc, sv, pruned,
              failures, lastOp>>

\* a slip: no lock around the body of __new__
CanAcquire_NoLock(lock) == TRUE

\* with cls._lock: the lock can be taken when nobody holds it
CanAcquire(lock) == lock = Unlocked

\* a thread calls FeedStorage()
NewCall(t) ==
    /\ pc[t] = "idle"
    /\ calls < MaxCalls
    /\ calls' = calls + 1
    /\ pc' = [pc EXCEPT ![t] = "new_lock"]
    /\ UNCHANGED <<feeds, swPc, hist, _instance, _lock, objects, loads, started,
                   returned>>
    /\ UNCHANGED NewKeeps

\* with cls._lock:
NewAcquire(t) ==
    /\ pc[t] = "new_lock"
    /\ CanAcquire(_lock)
    /\ _lock' = t
    /\ pc' = [pc EXCEPT ![t] = "new_test"]
    /\ UNCHANGED <<feeds, swPc, hist, _instance, objects, loads, started,
                   returned, calls>>
    /\ UNCHANGED NewKeeps

\* if cls._instance is None:
NewTest(t) ==
    /\ pc[t] = "new_test"
    /\ pc' = [pc EXCEPT ![t] = IF _instance = NoInstance
                               THEN "new_object" ELSE "new_return"]
    /\ UNCHANGED <<feeds, swPc, hist, _instance, _lock, objects, loads, started,
                   returned, calls>>
    /\ UNCHANGED NewKeeps

\* cls._instance = super(FeedStorage, cls).__new__(cls)
NewObject(t) ==
    /\ pc[t] = "new_object"
    /\ objects' = objects + 1
    /\ _instance' = objects + 1
    /\ pc' = [pc EXCEPT ![t] = "new_feeds"]
    /\ UNCHANGED <<feeds, swPc, hist, _lock, loads, started, returned, calls>>
    /\ UNCHANGED NewKeeps

\* cls._instance.feeds = {}
NewFeeds(t) ==
    /\ pc[t] = "new_feeds"
    /\ feeds' = NoData
    /\ hist' = NoData
    /\ pc' = [pc EXCEPT ![t] = "new_load"]
    /\ UNCHANGED <<swPc, _instance, _lock, objects, loads, started, returned,
                   calls>>
    /\ UNCHANGED NewKeeps

\* cls._instance.load()
NewLoad(t) ==
    /\ pc[t] = "new_load"
    /\ feeds' = load(file)
    /\ hist' = [id \in DOMAIN load(file) |-> load(file)[id].entries]
    /\ loads' = loads + 1
    /\ pc' = [pc EXCEPT ![t] = "new_thread"]
    /\ UNCHANGED <<swPc, _instance, _lock, objects, started, returned, calls>>
    /\ UNCHANGED NewKeeps

\* cleanup_thread = threading.Thread(...); cleanup_thread.start()
NewThread(t) ==
    /\ pc[t] = "new_thread"
    /\ started' = started + 1
    /\ swPc' = "run"
    /\ pc' = [pc EXCEPT ![t] = "new_return"]
    /\ UNCHANGED <<feeds, hist, _instance, _lock, objects, loads, returned, calls>>
    /\ UNCHANGED NewKeeps

\* return cls._instance, and the with block releases the lock
NewReturn(t) ==
    /\ pc[t] = "new_return"
    /\ returned' = [returned EXCEPT ![t] = @ \cup {_instance}]
    /\ _lock' = Unlocked
    /\ pc' = [pc EXCEPT ![t] = "idle"]
    /\ UNCHANGED <<feeds, swPc, hist, _instance, objects, loads, started, calls>>
    /\ UNCHANGED NewKeeps

NewNext ==
    \E t \in Threads :
        \/ NewCall(t)
        \/ NewAcquire(t)
        \/ NewTest(t)
        \/ NewObject(t)
        \/ NewFeeds(t)
        \/ NewLoad(t)
        \/ NewThread(t)
        \/ NewReturn(t)

NewSpec == NewInit /\ [][NewNext]_vars

----------------------------------------------------------------------------
(* FallbackSpec: the store operations, one at a time, on entries of which one
   has a date in none of the formats and one is old *)

FallbackEntries ==
    {e \in Entries :
        \/ e.pub_date.shape = "other"
        \/ e.pub_date.shape = "rfc822_gmt" /\ e.pub_date.day < StartDay}

FallbackNext == SeqNextOver(FallbackEntries, {"ok"})

FallbackSpec == Init /\ [][FallbackNext]_vars

----------------------------------------------------------------------------
(* Claims about the store's operations, run one at a time *)

\* C1: whatever was appended to a feed (by create_feed's initial entries and by
\* add_entry_to_feed), the feed holds at most MAX_ENTRIES_PER_FEED entries, and
\* unless the retention sweep removed some, they are exactly the
\* min(n, MAX_ENTRIES_PER_FEED) most recently appended of the n, newest first.
C1_NewestKept ==
    \A id \in DOMAIN feeds :
        /\ Len(feeds[id].entries) <= MAX_ENTRIES_PER_FEED
        /\ id \notin pruned =>
               /\ Len(feeds[id].entries) = Min(Len(hist[id]), MAX_ENTRIES_PER_FEED)
               /\ \A i \in 1..Len(feeds[id].entries) :
                      feeds[id].entries[i] = hist[id][i]

\* a feed that was appended to more often than it can hold, and was truncated
C1_Witness ==
    \E id \in DOMAIN feeds :
        /\ id \notin pruned
        /\ Len(hist[id]) > MAX_ENTRIES_PER_FEED
        /\ Len(feeds[id].entries) = MAX_ENTRIES_PER_FEED
        /\ hist[id][1] # hist[id][Len(hist[id])]

\* C8: right after add_entry_to_feed(feed_id, e) returned True, get_feed(feed_id)
\* is a feed whose entries[0] is e.
C8_ReadBack ==
    (lastOp.op = "add_entry_to_feed" /\ lastOp.ret) =>
        /\ get_feed(feeds, lastOp.fid) # None
        /\ Len(get_feed(feeds, lastOp.fid).entries) >= 1
        /\ get_feed(feeds, lastOp.fid).entries[1] = lastOp.entry

\* an append to a feed that held other entries has just returned True
C8_Witness ==
    /\ lastOp.op = "add_entry_to_feed"
    /\ lastOp.ret
    /\ Len(feeds[lastOp.fid].entries) = MAX_ENTRIES_PER_FEED
    /\ feeds[lastOp.fid].entries[2] # lastOp.entry

\* C9: delete_feed on a stored feed removes it (and no other), saves and returns
\* True, and get_feed then finds nothing; on an id that is not stored it returns
\* False and leaves the mapping and the storage file as they were.
C9_Delete ==
    [][lastOp'.op = "delete_feed" =>
        IF lastOp'.fid \in DOMAIN feeds
        THEN /\ lastOp'.ret = TRUE
             /\ get_feed(feeds', lastOp'.fid) = None
             /\ DOMAIN feeds' = DOMAIN feeds \ {lastOp'.fid}
             /\ \A id \in DOMAIN feeds' : feeds'[id] = feeds[id]
             /\ (failures' = failures => load(file') = feeds')
        ELSE /\ lastOp'.ret = FALSE
             /\ feeds' = feeds
             /\ file' = file]_vars

\* a feed has been deleted and another is still stored
C9_Witness ==
    /\ lastOp.op = "delete_feed"
    /\ lastOp.ret
    /\ lastOp.fid \notin DOMAIN feeds
    /\ feeds # NoData
    /\ load(file) = feeds

----------------------------------------------------------------------------
(* Claims about persistence and the retention sweep, operations run one at a
   time *)

\* C5: as long as no save has failed, after every operation and after every
\* sweep iteration (ended normally or in its except branch) the storage file
\* holds the mapping that is in memory.
C5_FileMirrorsMemory == (failures = 0) => (load(file) = feeds)

\* the instant a publication date names, whatever its format
InstantDay(entry, clock) == _parse_date(entry.pub_date, clock).day

\* C6: a sweep iteration leaves in every feed exactly the entries whose date is
\* strictly after now - HISTORY_DAYS, in their previous order, whatever accepted
\* format the dates are written in.
C6_SweepRemovesOld ==
    [][lastOp'.op = "sweep" =>
        /\ DOMAIN feeds' = DOMAIN feeds
        /\ \A id \in DOMAIN feeds :
               feeds'[id].entries =
                   SelectSeq(feeds[id].entries,
                             LAMBDA e : InstantDay(e, now) > now - HISTORY_DAYS)]_vars

\* C7: the retention loop never ends: after an iteration, failed or not, the
\* thread sleeps (3600 s after a failed one, 86400 s after another, and the
\* first is the shorter), and it then starts a further iteration.
C7_SweepForever ==
    /\ [](swPc \in {"run", "sleep"})
    /\ []((lastOp.op = "sweep") =>
             /\ swPc = "sleep"
             /\ swDelay = (IF lastOp.ret THEN CLEANUP_SLEEP ELSE RETRY_SLEEP)
             /\ RETRY_SLEEP < CLEANUP_SLEEP)
    /\ ((swPc = "sleep") ~> (swPc = "run"))
    /\ ((swPc = "run") ~> (swPc = "sleep"))

\* an iteration has failed and the thread is in its shorter sleep
C7_Witness ==
    /\ lastOp.op = "sweep"
    /\ ~lastOp.ret
    /\ swPc = "sleep"
    /\ swDelay = RETRY_SLEEP

StoreOps == {"add_feed", "delete_feed", "add_entry_to_feed"}

\* C10: a save that fails during add_feed, add_entry_to_feed or delete_feed
\* leaves the operation's result and its change in memory, and leaves the
\* storage file with the content of the last save that completed; a save that
\* completes writes the whole mapping in memory.
C10_FailedSave ==
    [][(lastOp'.op \in StoreOps /\ lastOp'.ret) =>
        /\ (failures' > failures) =>
               /\ load(file') = load(file)
               /\ (lastOp'.op = "add_feed") => lastOp'.fid \in DOMAIN feeds'
               /\ (lastOp'.op = "delete_feed") => lastOp'.fid \notin DOMAIN feeds'
               /\ (lastOp'.op = "add_entry_to_feed") =>
                      feeds'[lastOp'.fid].entries[1] = lastOp'.entry
        /\ (failures' = failures) => load(file') = feeds']_vars

----------------------------------------------------------------------------
(* Claims about threads that run at the same time *)

\* the retention thread assigns the list it computed to a stored feed
SweepWrites == swPc = "assign" /\ swPc' = "iter" /\ Stored(sw.fid)

\* C2: the retention sweep and a request never are in the middle of a change
\* at the same time: the list the sweep assigns to a feed is the feed's list as
\* it stands, without the entries that are too old (so it loses no entry that
\* was appended since the sweep read the list), and the sweep's loop over
\* self.feeds never fails because the mapping changed under it.
C2_SweepSerial ==
    [][/\ SweepWrites =>
            feeds'[sw.fid].entries =
                FilterEntries(feeds[sw.fid].entries, sw.clock).entries
       /\ sw'.raised # "RuntimeError"]_vars

\* thread t is inside add_entry_to_feed for feed id
Appending(t, id) == loc[t].op = "add_entry_to_feed" /\ loc[t].fid = id

\* C3: once the add_entry_to_feed calls on a feed have returned, and unless
\* the retention sweep changed the feed's list, the feed holds at most
\* MAX_ENTRIES_PER_FEED entries, and they are the entries that the appends, run
\* one after the other, would leave: the MAX_ENTRIES_PER_FEED most recently
\* inserted, newest first.
C3_AppendsSerial ==
    \A id \in DOMAIN feeds \ pruned :
        (\A t \in Threads : ~Appending(t, id)) =>
            /\ Len(feeds[id].entries) <= MAX_ENTRIES_PER_FEED
            /\ feeds[id].entries = Prefix(hist[id], MAX_ENTRIES_PER_FEED)

\* the threads that have the storage file open for writing
Writers == {p \in Procs : sv[p].open}

\* C4: the storage file never holds a feed as it is in the middle of an append
\* (with more than MAX_ENTRIES_PER_FEED entries), and no two threads have the
\* file open for writing at the same time.
C4_SaveSnapshot ==
    /\ \A id \in DOMAIN load(file) :
           Len(load(file)[id].entries) <= MAX_ENTRIES_PER_FEED
    /\ Cardinality(Writers) <= 1

----------------------------------------------------------------------------
(* Claims about persistence *)

\* C11: in every state of the store, save() followed by load() gives the
\* mapping that was saved: the same feed ids, and for each feed the same
\* metadata and the same entries in the same order with the same fields.
C11_RoundTrip == load(save(feeds, file, "ok")) = feeds

----------------------------------------------------------------------------
(* Claims about queries and documents *)

\* a search has just been answered
Searched == lastOp.op = "search_feeds"

\* the entries a result holds for the stored feed id: those of its copy, none
\* if the result has no copy of it
ReturnedEntries(rfeeds, id) ==
    IF \E i \in 1..Len(rfeeds) : rfeeds[i].feed_id = id
    THEN rfeeds[CHOOSE i \in 1..Len(rfeeds) : rfeeds[i].feed_id = id].entries
    ELSE <<>>

\* C13: filter_feeds returns a result whatever the from_date, to_date and limit
\* values and the stored dates are, and a from_date or to_date that is not a
\* date is ignored: the result is the one of the search without it.
C13_FilterTotal ==
    Searched =>
        /\ lastOp.ret.raised = "none"
        /\ lastOp.ret.query \in {"from_date" :> NotIsoDate, "to_date" :> NotIsoDate}
              => lastOp.ret.feeds = filter_feeds(feeds, NoParams, now).feeds

\* str with every letter replaced by the letter it is, case ignored
Fold(str) == [i \in 1..Len(str) |-> Letter(str[i])]

\* str contains x, ignoring case
ContainsIgnoringCase(x, str) == Contains(Fold(x), Fold(str))

\* C14: when title is the only criterion, the entries returned for a feed are
\* exactly the stored entries whose title contains it ignoring case, in their
\* stored order; likewise for description.
C14_TextFilter ==
    /\ (Searched /\ DOMAIN lastOp.ret.query = {"title"}) =>
          /\ lastOp.ret.raised = "none"
          /\ \A id \in DOMAIN feeds :
                ReturnedEntries(lastOp.ret.feeds, id) =
                    SelectSeq(feeds[id].entries, LAMBDA e :
                        ContainsIgnoringCase(lastOp.ret.query.title, e.title))
    /\ (Searched /\ DOMAIN lastOp.ret.query = {"description"}) =>
          /\ lastOp.ret.raised = "none"
          /\ \A id \in DOMAIN feeds :
                ReturnedEntries(lastOp.ret.feeds, id) =
                    SelectSeq(feeds[id].entries, LAMBDA e :
                        ContainsIgnoringCase(lastOp.ret.query.description,
                                             e.description))

\* the query without its limit
Unlimited(q) == [k \in DOMAIN q \ {"limit"} |-> q[k]]

\* C15: when limit is an integer N, the entries returned for a feed are the
\* first N (none for a negative N) of those the same search without the limit
\* returns for it, so there are at most N of them.
C15_Limit ==
    (Searched /\ LimitApplies(lastOp.ret.query)) =>
        /\ lastOp.ret.raised = "none"
        /\ \A id \in DOMAIN feeds :
              ReturnedEntries(lastOp.ret.feeds, id) =
                  Prefix(ReturnedEntries(
                             filter_feeds(feeds, Unlimited(lastOp.ret.query), now).feeds,
                             id),
                         Max(lastOp.ret.query.limit.n, 0))

\* the all-feeds document has just been built
Aggregated == lastOp.op = "get_all_feeds_xml" /\ lastOp.ret.raised = "none"

\* the stored feeds, in the order of the mapping
StoredFeeds == [i \in 1..Len(IdsInOrder(feeds)) |-> feeds[IdsInOrder(feeds)[i]]]

\* C16: the all-feeds document has one item for every entry of every stored
\* feed, and each item's title is '[<title of its feed>] ' and the entry's title.
C16_AggregateAll ==
    Aggregated =>
        /\ Len(lastOp.ret.entries) = Len(Flatten(StoredFeeds))
        /\ \A i \in 1..Len(lastOp.ret.entries) :
              \E id \in DOMAIN feeds : \E k \in 1..Len(feeds[id].entries) :
                  lastOp.ret.entries[i] = EntryCopy(feeds[id], feeds[id].entries[k])

\* the places an item has in the merge of the feeds merged
MergePlaces(merged, item) == {k \in 1..Len(merged) : merged[k] = item}

\* items are in the order of their dates, most recent first, and of two items
\* of the same date the one merged first comes first
DateOrdered(items, merged, clock) ==
    \A i \in 1..(Len(items) - 1) :
        LET a == _parse_date(items[i].pub_date, clock)
            b == _parse_date(items[i + 1].pub_date, clock)
        IN  /\ a.day >= b.day
            /\ (a.day = b.day /\ items[i] # items[i + 1]) =>
                   \E k \in MergePlaces(merged, items[i]) :
                       \E m \in MergePlaces(merged, items[i + 1]) : k < m

\* C17: the items of the all-feeds document and of the search-results document
\* are ordered by date, most recent first, equal dates in the order of the
\* merge.
C17_DocumentOrder ==
    /\ Aggregated => DateOrdered(lastOp.ret.entries, Flatten(StoredFeeds), now)
    /\ (Searched /\ lastOp.ret.raised = "none") =>
          DateOrdered(lastOp.ret.items, Flatten(lastOp.ret.feeds), now)

\* thread t holds, from this step to the next, the feeds filter_feeds gave it
StillHolds(t) == pc[t] = "render" /\ pc'[t] = "render"

\* C12: filter_feeds leaves the mapping and the storage file as they are, and
\* the feeds it returned are copies: whatever is appended to, swept from or
\* deleted in the store afterwards, a returned feed keeps the entries it had.
C12_FilterCopies ==
    [][/\ lastOp'.op = "filter_feeds" => (feeds' = feeds /\ file' = file)
       /\ \A t \in Threads : StillHolds(t) => loc'[t].tmp = loc[t].tmp]_vars

----------------------------------------------------------------------------
(* Claims about the entries a feed holds *)

\* C18: no feed holds two entries with the same guid.
C18_GuidUnique ==
    \A id \in DOMAIN feeds :
        \A i, j \in 1..Len(feeds[id].entries) :
            i # j => feeds[id].entries[i].guid # feeds[id].entries[j].guid

\* C19: after every change of the mapping (also a create, a delete or a sweep
\* on a store that was loaded from a file), every stored feed holds at most
\* MAX_ENTRIES_PER_FEED entries.
C19_BoundAfterMutation ==
    [][feeds' # feeds =>
          \A id \in DOMAIN feeds' :
              Len(feeds'[id].entries) <= MAX_ENTRIES_PER_FEED]_vars

\* the entries whose date is in none of the formats of _parse_date
Unparsed(entries) == SelectSeq(entries, LAMBDA e : e.pub_date.shape = "other")

\* C20: an entry whose date is in none of the accepted formats is kept by
\* every sweep and makes no sweep fail: only an append to its feed (by
\* truncation) or the deletion of its feed removes it.
C20_UnparsedKept ==
    [][/\ lastOp'.op = "sweep" => lastOp'.ret = TRUE
       /\ \A id \in DOMAIN feeds \cap DOMAIN feeds' :
             lastOp'.op # "add_entry_to_feed" =>
                 Unparsed(feeds'[id].entries) = Unparsed(feeds[id].entries)]_vars

\* a sweep, run after time has passed, has just removed an old entry from a
\* feed and left the feed's entry with the unparsable date
C20_Witness ==
    /\ lastOp.op = "sweep"
    /\ now > StartDay
    /\ \E id \in pruned : Unparsed(feeds[id].entries) # <<>>

----------------------------------------------------------------------------
(* Claims about the construction of the store *)

\* the objects FeedStorage() has returned, to any thread
AllReturned == UNION {returned[t] : t \in Threads}

\* C21: however many times and from however many threads FeedStorage() is
\* called, every call returns the same object, load() has run exactly once
\* and exactly one retention thread has been started.
C21_OneStore ==
    /\ objects <= 1
    /\ loads <= 1
    /\ started <= 1
    /\ AllReturned # {} =>
           /\ AllReturned = {_instance}
           /\ _instance # NoInstance
           /\ loads = 1
           /\ started = 1

\* every thread has had a store returned, and two more constructions are
\* under way: one thread holds the lock, another waits for it
C21_Witness ==
    /\ \A t \in Threads : returned[t] # {}
    /\ \E t, u \in Threads : pc[t] = "new_lock" /\ _lock = u /\ u # t

====
